---- MODULE Spec2Model ----
(***************************************************************************)
(* Shopping-cart cost optimiser (src/main.py).                             *)
(*                                                                         *)
(* load_cart builds the catalog, main checks the stock of every item,      *)
(* solve_shopping_problem builds a mixed-integer program, hands it to the  *)
(* external solver and decodes the returned variable values into a plan,   *)
(* print_result reports the plan.                                          *)
(*                                                                         *)
(* The external solver is modelled by its contract: it answers Optimal     *)
(* with any assignment of the declared variables that satisfies every      *)
(* constraint and minimises the objective, and a non-Optimal status when   *)
(* no assignment satisfies the constraints.  Variable values are exact     *)
(* integers; the model is bounded (every buy variable is capped by its     *)
(* stock), so Optimal and Infeasible are the statuses of a complete solve. *)
(***************************************************************************)
EXTENDS Integers, Sequences, FiniteSets, TLC

\* ------------------------------------------------------------------------
\* Program constants (src/main.py:6-9)
\* ------------------------------------------------------------------------
SMALL_DEL == 132
MED_DEL == 237
BIG_DEL == 2000
BIG_M == 100000

\* ------------------------------------------------------------------------
\* Bounds of the model and the input sets of the cart document
\* ------------------------------------------------------------------------
\* items in the cart document
MaxItems == 2
\* offer records in the cart document (skipped ones included)
MaxOffers == 3
\* offer records with a bulk stock
MaxBulk == 1

Names == {"A", "B"}
Costs == {10, 40}
\* The cart document holds either retail quantities, around the delivery
\* tiers' bounds, or wholesale quantities, around BIG_M.  An item asks for a
\* small or a large amount; an offer has no stock, a small stock or a bulk stock.
Regimes == {"retail", "wholesale"}
BulkAvailable(r) == IF r = "retail" THEN 18 ELSE BIG_M + 5
Amounts(r) == IF r = "retail" THEN {3, 5, 21} ELSE {3, BIG_M + 5}
Availables(r) == {0, 4, BulkAvailable(r)}
\* the steps by which the monotonicity check raises one offer's unit cost
CostSteps == {1, 30}

VARIABLES
    regime,           \* the quantities of the cart document being read
    pc,               \* position of main
    items_needed,     \* load_cart: item id -> required amount
    offer_catalog,    \* load_cart: offer id -> record of the offer
    offer_ids,        \* load_cart: offer ids in load order
    offer_to_seller,  \* load_cart: offer id -> seller name
    seller_to_offers, \* load_cart: seller name -> offer ids in load order
    offer_index,      \* load_cart: index of the next offer record of the item
    records,          \* offer records read so far (loop progress)
    check_index,      \* main: the item the availability loop is at
    stock_error,      \* main: "Not enough stock!" was printed
    solver_calls,     \* number of prob.solve calls
    status,           \* LpStatus[prob.status] after the solve
    sol,              \* varValue of every variable after the solve
    result,           \* what solve_shopping_problem returned
    printed           \* print_result was called

vars == <<regime, pc, items_needed, offer_catalog, offer_ids, offer_to_seller,
          seller_to_offers, offer_index, records, check_index,
          stock_error, solver_calls, status, sol, result, printed>>

\* Python's None, where a record may stand instead
None == [none |-> TRUE]

\* ------------------------------------------------------------------------
\* Arithmetic helpers
\* ------------------------------------------------------------------------
Min(a, b) == IF a <= b THEN a ELSE b
Max(a, b) == IF a >= b THEN a ELSE b

RECURSIVE SumSeq(_)
\* sum(...) / lpSum(...) over a list of numbers
SumSeq(s) == IF s = <<>> THEN 0 ELSE Head(s) + SumSeq(Tail(s))

RECURSIVE SumSet(_, _)
\* sum of f[e] over the elements e of S
SumSet(S, f) ==
    IF S = {} THEN 0
    ELSE LET e == CHOOSE e \in S : TRUE IN f[e] + SumSet(S \ {e}, f)

\* the least element of a non-empty set of integers
MinOf(S) == CHOOSE m \in S : \A d \in S : m <= d

\* ------------------------------------------------------------------------
\* The catalog (return value of load_cart) and its indexes
\* ------------------------------------------------------------------------
Cart ==
    [items_needed |-> items_needed, offer_catalog |-> offer_catalog,
     offer_ids |-> offer_ids, offer_to_seller |-> offer_to_seller,
     seller_to_offers |-> seller_to_offers]

\* sellers = list(seller_to_offers.keys())
Sellers(c) == DOMAIN c.seller_to_offers
\* item_ids = list(items_needed.keys())
ItemIds(c) == DOMAIN c.items_needed
\* [o for o in offer_ids if offer_catalog[o]["item_id"] == item_id]
OffersOfItem(c, item) ==
    SelectSeq(c.offer_ids, LAMBDA o : c.offer_catalog[o].item_id = item)
\* sum(offer_catalog[o]["available"] for o in offer_ids if ... == item_id)
TotalAvailable(c, item) ==
    LET offers == OffersOfItem(c, item)
    IN  SumSeq([n \in 1..Len(offers) |-> c.offer_catalog[offers[n]].available])
\* the quantities an assignment buys of one item
BoughtOfItem(c, x, item) ==
    LET offers == OffersOfItem(c, item)
    IN  SumSeq([n \in 1..Len(offers) |-> x[offers[n]]])
\* lpSum(x[o] for o in seller_to_offers[s])
QtySeller(c, x, s) ==
    SumSeq([n \in 1..Len(c.seller_to_offers[s]) |-> x[c.seller_to_offers[s][n]]])

\* ------------------------------------------------------------------------
\* The mixed-integer program of solve_shopping_problem
\* An assignment gives a value to every declared variable:
\*   x[o] (buy), y[s] (use_seller), q[s] (qty_seller), z1/z2/z3[s] (tiers)
\* ------------------------------------------------------------------------
\* Objective with the item cost left out
ObjectiveDeliveryOnly(c, a) ==
    SumSet(Sellers(c),
           [s \in Sellers(c) |->
               SMALL_DEL * a.z1[s] + MED_DEL * a.z2[s] + BIG_DEL * a.z3[s]])

\* Objective with the delivery fees left out
ObjectiveItemsOnly(c, a) ==
    SumSeq([n \in 1..Len(c.offer_ids) |->
               a.x[c.offer_ids[n]] * c.offer_catalog[c.offer_ids[n]].cost])

\* Objective: item cost + delivery
Objective(c, a) ==
    SumSeq([n \in 1..Len(c.offer_ids) |->
               a.x[c.offer_ids[n]] * c.offer_catalog[c.offer_ids[n]].cost])
    + SumSet(Sellers(c),
             [s \in Sellers(c) |->
                 SMALL_DEL * a.z1[s] + MED_DEL * a.z2[s] + BIG_DEL * a.z3[s]])

\* Demand constraints
DemandConstraints(c, x) ==
    \A item \in ItemIds(c) : BoughtOfItem(c, x, item) = c.items_needed[item]

\* Stock limits
StockLimits(c, x) ==
    \A o \in DOMAIN x : x[o] <= c.offer_catalog[o].available

\* Link quantity to offers and seller usage, for one seller; v holds the
\* seller's variables y, q, z1, z2, z3
SellerLinkage(c, x, s, v) ==
    /\ v.q = QtySeller(c, x, s)
    /\ \A i \in 1..Len(c.seller_to_offers[s]) :
          LET o == c.seller_to_offers[s][i]
          IN  x[o] <= c.offer_catalog[o].available * v.y

\* Tier constraints without the upper bound of the medium tier
TierConstraintsNoMedCap(v) ==
    /\ v.z1 + v.z2 + v.z3 = v.y
    /\ v.q <= 4 + (1 - v.z1) * BIG_M
    /\ v.q >= 5 * v.z2
    /\ v.q >= 21 * v.z3

\* Delivery tier constraints with Big M logic, for one seller
TierConstraints(v) ==
    /\ v.z1 + v.z2 + v.z3 = v.y
    /\ v.q <= 4 + (1 - v.z1) * BIG_M
    /\ v.q >= 5 * v.z2
    /\ v.q <= 20 + (1 - v.z2) * BIG_M
    /\ v.q >= 21 * v.z3

\* availability of the offers of `item` that come after position i
LaterAvailable(c, i, item) ==
    LET later == SubSeq(c.offer_ids, i + 1, Len(c.offer_ids))
    IN  SumSeq([n \in 1..Len(later) |->
                   IF c.offer_catalog[later[n]].item_id = item
                   THEN c.offer_catalog[later[n]].available ELSE 0])

RECURSIVE BuySeqs(_, _, _)
\* The values of the integer variables buy[o] >= 0 of the offers at positions
\* i.. of offer_ids that leave `rem` of each item to buy and can still meet the
\* demand and stock constraints: a value above the stock or above what is left
\* to buy, or one the later offers' stock cannot complete, is in no solution.
BuySeqs(c, i, rem) ==
    IF i > Len(c.offer_ids)
    THEN IF \A item \in DOMAIN rem : rem[item] = 0 THEN {<<>>} ELSE {}
    ELSE LET o    == c.offer_ids[i]
             item == c.offer_catalog[o].item_id
             lo   == Max(0, rem[item] - LaterAvailable(c, i, item))
             hi   == Min(c.offer_catalog[o].available, rem[item])
         IN  UNION {{<<k>> \o t : t \in BuySeqs(c, i + 1, [rem EXCEPT ![item] = @ - k])}
                    : k \in lo..hi}

\* index of offer o in offer_ids
IndexOf(c, o) == CHOOSE i \in 1..Len(c.offer_ids) : c.offer_ids[i] = o

\* the values of buy that satisfy the demand constraints and the stock limits
BuyChoices(c) ==
    LET ids == {c.offer_ids[i] : i \in 1..Len(c.offer_ids)}
        xs  == {[o \in ids |-> t[IndexOf(c, o)]] : t \in BuySeqs(c, 1, c.items_needed)}
    IN  {x \in xs : DemandConstraints(c, x) /\ StockLimits(c, x)}

\* the values of one seller's variables that satisfy its constraints, given buy
SellerChoices(c, x, s) ==
    LET qty == QtySeller(c, x, s)
    IN  {v \in [y : 0..1, q : {qty}, z1 : 0..1, z2 : 0..1, z3 : 0..1] :
            TierConstraints(v) /\ SellerLinkage(c, x, s, v)}

\* the assignments with buy = x that satisfy all constraints
FeasibleWith(c, x) ==
    LET sc == [s \in Sellers(c) |-> SellerChoices(c, x, s)]
        fs == {f \in [Sellers(c) -> UNION {sc[s] : s \in Sellers(c)}] :
                  \A s \in Sellers(c) : f[s] \in sc[s]}
    IN  {[x  |-> x,
          y  |-> [s \in Sellers(c) |-> f[s].y],
          q  |-> [s \in Sellers(c) |-> f[s].q],
          z1 |-> [s \in Sellers(c) |-> f[s].z1],
          z2 |-> [s \in Sellers(c) |-> f[s].z2],
          z3 |-> [s \in Sellers(c) |-> f[s].z3]] : f \in fs}

\* every assignment of the variables that satisfies all constraints
FeasibleSet(c) == UNION {FeasibleWith(c, x) : x \in BuyChoices(c)}

\* the least objective value over the feasible assignments
MinObjective(c) ==
    MinOf(UNION {{Objective(c, a) : a \in FeasibleWith(c, x)} : x \in BuyChoices(c)})

\* the assignments prob.solve may leave in the variables with status Optimal:
\* the feasible ones of least objective value
OptimalSet(c) ==
    LET m == MinObjective(c)
    IN  UNION {{a \in FeasibleWith(c, x) : Objective(c, a) = m} : x \in BuyChoices(c)}

\* the model has some feasible assignment
Feasible(c) == ~(\A x \in BuyChoices(c) : FeasibleWith(c, x) = {})

\* ------------------------------------------------------------------------
\* Decoding the solver's values (solve_shopping_problem, after the solve)
\* ------------------------------------------------------------------------
\* the offer is recorded whenever its quantity is not negative
RecordedOrZero(qty) == qty >= 0

\* `if qty and qty > 0`: the offer is recorded in the plan
Recorded(qty) == qty # 0 /\ qty > 0

\* the (item_id, offer_id, int(qty)) triples appended under seller s; int()
\* leaves the exact integer value of a buy variable as it is
Orders(c, a, s) ==
    LET bought == SelectSeq(c.offer_ids,
                            LAMBDA o : c.offer_to_seller[o] = s /\ Recorded(a.x[o]))
    IN  [n \in 1..Len(bought) |->
            <<c.offer_catalog[bought[n]].item_id, bought[n], a.x[bought[n]]>>]

\* Extract item assignments: a defaultdict, so only sellers with an order
ExtractAssignment(c, a) ==
    [s \in {t \in Sellers(c) : Orders(c, a, t) # <<>>} |-> Orders(c, a, s)]

\* the if/elif chain with the medium and the large fee exchanged
DeliveryCostSwapped(z1_val, z2_val, z3_val) ==
    IF z1_val = 1 THEN SMALL_DEL
    ELSE IF z2_val = 1 THEN BIG_DEL
    ELSE IF z3_val = 1 THEN MED_DEL
    ELSE 0

\* the if/elif chain that picks a seller's delivery cost
DeliveryCost(z1_val, z2_val, z3_val) ==
    IF z1_val = 1 THEN SMALL_DEL
    ELSE IF z2_val = 1 THEN MED_DEL
    ELSE IF z3_val = 1 THEN BIG_DEL
    ELSE 0

\* Extract delivery costs, for every seller
ExtractDelivery(c, a) ==
    [s \in Sellers(c) |-> DeliveryCost(a.z1[s], a.z2[s], a.z3[s])]

\* delivery_costs.get(seller, 0)
GetOr0(d, k) == IF k \in DOMAIN d THEN d[k] ELSE 0

\* Calculate total cost
TotalCost(c, assignment, delivery_costs) ==
    SumSet(DOMAIN assignment,
           [seller \in DOMAIN assignment |->
               SumSeq([n \in 1..Len(assignment[seller]) |->
                          c.offer_catalog[assignment[seller][n][2]].cost
                          * assignment[seller][n][3]])
               + GetOr0(delivery_costs, seller)])

\* the tuple solve_shopping_problem returns after an Optimal solve
Plan(c, a) ==
    LET assignment == ExtractAssignment(c, a)
        delivery   == ExtractDelivery(c, a)
    IN  [assignment |-> assignment, delivery_costs |-> delivery,
         total_cost |-> TotalCost(c, assignment, delivery)]

\* ------------------------------------------------------------------------
\* load_cart
\* ------------------------------------------------------------------------
NumItems == Cardinality(DOMAIN items_needed)
\* offers loaded so far with a bulk stock
BulkOffers ==
    Cardinality({o \in DOMAIN offer_catalog :
                    offer_catalog[o].available >= BulkAvailable(regime)})

Init ==
    /\ regime \in Regimes
    /\ pc = "load"
    /\ items_needed = <<>>
    /\ offer_catalog = <<>>
    /\ offer_ids = <<>>
    /\ offer_to_seller = <<>>
    /\ seller_to_offers = <<>>
    /\ offer_index = 0
    /\ records = 0
    /\ check_index = 0
    /\ stock_error = FALSE
    /\ solver_calls = 0
    /\ status = "Not Solved"
    /\ sol = None
    /\ result = None
    /\ printed = FALSE

\* f with key k set to value v (dict item assignment)
Put(f, k, v) == [e \in DOMAIN f \cup {k} |-> IF e = k THEN v ELSE f[e]]

\* one turn of the outer loop: the next item record, with its amount
LoadItem(amount) ==
    /\ pc = "load"
    /\ NumItems < MaxItems
    /\ items_needed' = Put(items_needed, NumItems, amount)
    /\ offer_index' = 0
    /\ UNCHANGED <<regime, pc, offer_catalog, offer_ids, offer_to_seller,
                   seller_to_offers, records, check_index, stock_error,
                   solver_calls, status, sol, result, printed>>

\* one turn of the inner loop: the next offer record of the current item
LoadOffer(name, cost, available) ==
    /\ pc = "load"
    /\ NumItems > 0
    /\ records < MaxOffers
    /\ available >= BulkAvailable(regime) => BulkOffers < MaxBulk
    /\ records' = records + 1
    /\ offer_index' = offer_index + 1
    /\ IF available <= 0
       THEN UNCHANGED <<offer_catalog, offer_ids, offer_to_seller, seller_to_offers>>
       ELSE LET item_index == NumItems - 1
                offer_id   == <<name, item_index, offer_index>>
            IN  /\ offer_catalog' =
                       Put(offer_catalog, offer_id,
                           [item_id |-> item_index, cost |-> cost,
                            available |-> available, seller |-> name])
                /\ offer_ids' = Append(offer_ids, offer_id)
                /\ offer_to_seller' = Put(offer_to_seller, offer_id, name)
                /\ seller_to_offers' =
                       Put(seller_to_offers, name,
                           Append(IF name \in DOMAIN seller_to_offers
                                  THEN seller_to_offers[name] ELSE <<>>,
                                  offer_id))
    /\ UNCHANGED <<regime, pc, items_needed, check_index, stock_error, solver_calls,
                   status, sol, result, printed>>

\* load_cart returns; main starts the availability loop
LoadDone ==
    /\ pc = "load"
    /\ pc' = IF NumItems = 0 THEN "solve" ELSE "check"
    /\ check_index' = 0
    /\ UNCHANGED <<regime, items_needed, offer_catalog, offer_ids, offer_to_seller,
                   seller_to_offers, offer_index, records, stock_error,
                   solver_calls, status, sol, result, printed>>

\* ------------------------------------------------------------------------
\* main
\* ------------------------------------------------------------------------
\* the comparison of the availability check turned around
NotEnoughInverted(total_available, needed) == total_available > needed

\* `total_available < items_needed[item_id]`
NotEnough(total_available, needed) == total_available < needed

\* one turn of the availability loop
CheckAvailability ==
    /\ pc = "check"
    /\ check_index < NumItems
    /\ IF NotEnough(TotalAvailable(Cart, check_index), items_needed[check_index])
       THEN /\ stock_error' = TRUE
            /\ pc' = "done"
            /\ UNCHANGED check_index
       ELSE /\ check_index' = check_index + 1
            /\ pc' = IF check_index + 1 = NumItems THEN "solve" ELSE "check"
            /\ UNCHANGED stock_error
    /\ UNCHANGED <<regime, items_needed, offer_catalog, offer_ids, offer_to_seller,
                   seller_to_offers, offer_index, records, solver_calls,
                   status, sol, result, printed>>

\* what solve_shopping_problem returns for a status and the variables' values
Returned(c, st, a) == IF st # "Optimal" THEN None ELSE Plan(c, a)

\* solve_shopping_problem, the solver ending Optimal
SolveOptimal ==
    /\ pc = "solve"
    /\ Feasible(Cart)
    /\ \E a \in OptimalSet(Cart) :
          /\ status' = "Optimal"
          /\ sol' = a
          /\ result' = Returned(Cart, "Optimal", a)
    /\ solver_calls' = solver_calls + 1
    /\ pc' = "solved"
    /\ UNCHANGED <<regime, items_needed, offer_catalog, offer_ids, offer_to_seller,
                   seller_to_offers, offer_index, records, check_index,
                   stock_error, printed>>

\* solve_shopping_problem, the solver finding no assignment
SolveNotOptimal ==
    /\ pc = "solve"
    /\ ~Feasible(Cart)
    /\ status' = "Infeasible"
    /\ sol' = None
    /\ result' = Returned(Cart, "Infeasible", None)
    /\ solver_calls' = solver_calls + 1
    /\ pc' = "solved"
    /\ UNCHANGED <<regime, items_needed, offer_catalog, offer_ids, offer_to_seller,
                   seller_to_offers, offer_index, records, check_index,
                   stock_error, printed>>

\* main reporting whatever solve_shopping_problem returned
TruthyAlways(r) == TRUE

\* `if result:` is true for the returned tuple, false for None
Truthy(r) == r # None

\* main after solve_shopping_problem returned: print_result or nothing
Report ==
    /\ pc = "solved"
    /\ printed' = Truthy(result)
    /\ pc' = "done"
    /\ UNCHANGED <<regime, items_needed, offer_catalog, offer_ids, offer_to_seller,
                   seller_to_offers, offer_index, records, check_index,
                   stock_error, solver_calls, status, sol, result>>

Next ==
    \/ \E amount \in Amounts(regime) : LoadItem(amount)
    \/ \E name \in Names, cost \in Costs, available \in Availables(regime) :
          LoadOffer(name, cost, available)
    \/ LoadDone
    \/ CheckAvailability
    \/ SolveOptimal
    \/ SolveNotOptimal
    \/ Report

Spec == Init /\ [][Next]_vars

\* ------------------------------------------------------------------------
\* Definitions the properties are stated with
\* ------------------------------------------------------------------------
\* a plan was returned by solve_shopping_problem
PlanReturned == result # None

\* the units a returned plan buys from seller s
PlanQty(assignment, s) ==
    SumSeq([n \in 1..Len(assignment[s]) |-> assignment[s][n][3]])

\* the units a returned plan buys of one item, over all sellers
PlanBoughtOfItem(assignment, item) ==
    SumSet(DOMAIN assignment,
           [s \in DOMAIN assignment |->
               SumSeq([n \in 1..Len(assignment[s]) |->
                          IF assignment[s][n][1] = item
                          THEN assignment[s][n][3] ELSE 0])])

\* the shipping fee of the tier table for q units from one seller
TieredFee(q) ==
    IF q = 0 THEN 0
    ELSE IF q <= 4 THEN SMALL_DEL
    ELSE IF q <= 20 THEN MED_DEL
    ELSE BIG_DEL

\* the cost of buying x under the tier table
TieredCost(c, x) ==
    SumSeq([n \in 1..Len(c.offer_ids) |->
               x[c.offer_ids[n]] * c.offer_catalog[c.offer_ids[n]].cost])
    + SumSet(Sellers(c), [s \in Sellers(c) |-> TieredFee(QtySeller(c, x, s))])

\* the least cost under the tier table of meeting demand within stock
TieredOptimum(c) == MinOf({TieredCost(c, x) : x \in BuyChoices(c)})

\* the catalog c with the unit cost of offer o raised by d
RaiseCost(c, o, d) ==
    [c EXCEPT !.offer_catalog[o].cost = @ + d]

\* the totals solve_shopping_problem can return for catalog c
ReturnedTotals(c) == {Plan(c, a).total_cost : a \in OptimalSet(c)}

\* ------------------------------------------------------------------------
\* Properties
\* ------------------------------------------------------------------------
\* C1: for every catalog with sufficient stock, the total cost returned by
\* solve_shopping_problem is the least cost, under the tier table (0 for 0
\* units, SMALL_DEL for 1-4, MED_DEL for 5-20, BIG_DEL for 21 or more), of a
\* plan that meets every demand exactly within every offer's stock.
C1_ReturnsTieredOptimum ==
    (pc = "solved" /\ PlanReturned) => result.total_cost = TieredOptimum(Cart)

\* C1 within BIG_M: a returned total is the tiered optimum whenever no seller
\* can be asked for more than 4 + BIG_M units.
C1_WithinBigM ==
    (pc = "solved" /\ SumSet(ItemIds(Cart), items_needed) <= 4 + BIG_M) =>
        /\ PlanReturned
        /\ result.total_cost = TieredOptimum(Cart)

\* C2: when every item's surviving offers hold at least the required amount,
\* the solve ends Optimal, a plan is returned, and the plan's quantities summed
\* per item equal the item's required amount.
C2_SufficientStockSolves ==
    pc = "solved" =>
        /\ status = "Optimal"
        /\ PlanReturned
        /\ \A item \in ItemIds(Cart) :
              PlanBoughtOfItem(result.assignment, item) = items_needed[item]

\* C3: every offer recorded in a returned plan has a quantity of at least 1
\* and at most the offer's available quantity.
C3_RecordedWithinStock ==
    PlanReturned =>
        \A s \in DOMAIN result.assignment :
            \A i \in 1..Len(result.assignment[s]) :
                LET t == result.assignment[s][i]
                IN  /\ t[3] >= 1
                    /\ t[3] <= offer_catalog[t[2]].available

\* C3 witness: a plan that takes all of one offer's stock and part of another's
C3_Witness ==
    /\ PlanReturned
    /\ \E s \in DOMAIN result.assignment : \E i \in 1..Len(result.assignment[s]) :
          result.assignment[s][i][3] = offer_catalog[result.assignment[s][i][2]].available
    /\ \E s \in DOMAIN result.assignment : \E i \in 1..Len(result.assignment[s]) :
          result.assignment[s][i][3] < offer_catalog[result.assignment[s][i][2]].available

\* C4: for every seller of a returned plan exactly one tier indicator is 1,
\* the seller's delivery cost is the fee of that tier, and the seller's total
\* quantity is within the tier's bounds: 1-4 small, 5-20 medium, 21+ large.
C4_OneTierWithinBounds ==
    PlanReturned =>
        \A s \in DOMAIN result.assignment :
            LET n  == PlanQty(result.assignment, s)
                dc == result.delivery_costs[s]
            IN  /\ sol.z1[s] + sol.z2[s] + sol.z3[s] = 1
                /\ sol.z1[s] = 1 => (dc = SMALL_DEL /\ 1 <= n /\ n <= 4)
                /\ sol.z2[s] = 1 => (dc = MED_DEL /\ 5 <= n /\ n <= 20)
                /\ sol.z3[s] = 1 => (dc = BIG_DEL /\ 21 <= n)

\* C4 witness: a plan with a seller in the large tier and one in the small tier
C4_Witness ==
    /\ PlanReturned
    /\ \E s \in DOMAIN result.assignment : sol.z3[s] = 1
    /\ \E s \in DOMAIN result.assignment : sol.z1[s] = 1

\* C5: after an Optimal solve the recomputed total cost equals the objective
\* value of the model at the returned assignment.
C5_TotalIsObjective ==
    PlanReturned => result.total_cost = Objective(Cart, sol)

\* C5 witness: a plan that uses one seller of the catalog and leaves another
C5_Witness ==
    /\ PlanReturned
    /\ DOMAIN result.assignment # {}
    /\ Sellers(Cart) \ DOMAIN result.assignment # {}

\* C6: if an item's surviving offers hold less than its required amount the
\* run ends with the not-enough-stock report, solve_shopping_problem is never
\* invoked and nothing is printed; the solver is invoked only after every item
\* passed the availability check.
C6_StockCheckedBeforeSolve ==
    /\ stock_error => (pc = "done" /\ solver_calls = 0 /\ ~printed /\ ~PlanReturned)
    /\ (pc \in {"solve", "solved"} \/ solver_calls > 0 \/ printed) =>
          /\ ~stock_error
          /\ \A item \in ItemIds(Cart) :
                TotalAvailable(Cart, item) >= items_needed[item]
    /\ (pc = "done" /\ \E item \in ItemIds(Cart) :
                          TotalAvailable(Cart, item) < items_needed[item]) =>
          stock_error

\* C6 witness: the run ended on the second item's lack of stock
C6_Witness ==
    /\ pc = "done"
    /\ stock_error
    /\ check_index = 1
    /\ TotalAvailable(Cart, 1) < items_needed[1]

\* C7: when the solver's status is not Optimal, solve_shopping_problem returns
\* no plan and print_result is never called; a plan is reported only after an
\* Optimal status.
C7_NoPlanUnlessOptimal ==
    /\ (solver_calls > 0 /\ status # "Optimal") => (~PlanReturned /\ ~printed)
    /\ (PlanReturned \/ printed) => status = "Optimal"

\* C7 witness: the run ended after a solve that was not Optimal
C7_Witness ==
    /\ pc = "done"
    /\ solver_calls = 1
    /\ status # "Optimal"

\* C8: raising one offer's unit cost, all else equal, never makes the returned
\* optimal total smaller.
C8_Monotone ==
    (pc = "solved" /\ PlanReturned) =>
        \A i \in 1..Len(offer_ids) : \A d \in CostSteps :
            \A t \in ReturnedTotals(RaiseCost(Cart, offer_ids[i], d)) :
                result.total_cost <= t

\* C8 witness: a raise that makes another plan the optimum, so the total rises
\* but by less than the raise on the units bought
C8_Witness ==
    /\ pc = "solved"
    /\ PlanReturned
    /\ \E i \in 1..Len(offer_ids) : \E d \in CostSteps :
          \E t \in ReturnedTotals(RaiseCost(Cart, offer_ids[i], d)) :
              /\ result.total_cost < t
              /\ t < result.total_cost + d * sol.x[offer_ids[i]]

\* C9: the relaxation constant exceeds every feasible per-seller quantity, so
\* the relaxed tier bounds exclude no plan that meets demand within stock:
\* every such plan is the buy part of an assignment the model admits.
C9_RelaxationExcludesNoPlan ==
    pc = "solve" =>
        \A x \in BuyChoices(Cart) :
            /\ \A s \in Sellers(Cart) : QtySeller(Cart, x, s) < BIG_M
            /\ \E a \in FeasibleSet(Cart) : a.x = x

\* C10: in every assignment returned as optimal, use_seller[s] is 1 exactly
\* when the quantity bought from s is at least 1, and a seller from which
\* nothing is bought has no tier indicator set.
C10_UsedIffBought ==
    status = "Optimal" =>
        \A s \in Sellers(Cart) :
            /\ sol.q[s] = QtySeller(Cart, sol.x, s)
            /\ sol.y[s] = 1 <=> sol.q[s] >= 1
            /\ sol.q[s] = 0 => sol.z1[s] + sol.z2[s] + sol.z3[s] = 0

\* C10 witness: an optimal assignment that buys from one seller and not from
\* another seller of the catalog
C10_Witness ==
    /\ status = "Optimal"
    /\ \E s \in Sellers(Cart) : sol.q[s] = 0 /\ sol.y[s] = 0
    /\ \E s \in Sellers(Cart) : sol.q[s] >= 1 /\ sol.y[s] = 1

====
